---- MODULE Spec2Model ----
(***************************************************************************)
(* mini-di: a type-keyed dependency container.                             *)
(*                                                                         *)
(* A Container owns a table TypeId -> Constructor and a parent.  The       *)
(* registration operations insert a constructor under a type key; a        *)
(* Resolver bound to a container looks a key up locally, then in the       *)
(* parent chain, invokes the constructor found with itself as argument and *)
(* downcasts the boxed result.  A singleton constructor memoizes an Arc in *)
(* a Mutex<Option<Arc<T>>> cell captured by the closure.                   *)
(*                                                                         *)
(* Spec    one caller thread; registrations, with_parent and resolutions   *)
(*         in any order the borrow rules allow.                            *)
(* SpecMT  containers set up as in the tests, then shared by NumThreads    *)
(*         threads that only resolve.                                      *)
(***************************************************************************)
EXTENDS Integers, Sequences, FiniteSets, TLC

\* ------------------------------------------------------------------ bounds
MaxContainers == 3      \* containers ever created (the root included)
MaxRegs == 3            \* registration calls in one run
MaxBuilds == 2          \* objects the closures of one table slot ever construct
NumThreads == 2         \* threads resolving concurrently (SpecMT)

Containers == 1..MaxContainers
Threads == 1..NumThreads

\* ------------------------------------------------------------------ types
\* The TypeIds the tests register under, and the types their strategies build.
TypeIds == {"u32", "Boss", "ArcLogger", "ArcBoss", "RcDynAudioManager", "ArcNode",
            "RcTestAudioManager"}
CloneValues == {1, 2}           \* the u32 values handed to register_clone
ClosureValue == 42              \* the u32 the custom closure |_| 42 returns
ConstructTypes == {"Boss"}      \* T of register_construct::<T>
SingletonTypes == {"Logger", "Boss"}  \* T of register_singleton::<T>
DelegateTypes == {"RcTestAudioManager"}  \* E of register_construct_other::<_, E>
ParentModes == {"ref", "arc"}   \* with_parent(&c) and with_parent(Arc::new(c))

\* The identity of a constructed object: the table slot whose closure built
\* it and the count of that slot's constructions.  A plain number has none.
NoId == <<>>

\* A value: its runtime type, the identity of the object it is or points to,
\* its number, and the identity of the Logger a Boss holds.
NoValue == [ty |-> "none", id |-> NoId, val |-> 0, dep |-> NoId]
U32(v) == [ty |-> "u32", id |-> NoId, val |-> v, dep |-> NoId]
Obj(ty, id, dep) == [ty |-> ty, id |-> id, val |-> 0, dep |-> dep]

\* Option<T>, and the value a construct call hands back.
None == [tag |-> "nothing", v |-> NoValue]
Some(v) == [tag |-> "some", v |-> v]
Plain(v) == [tag |-> "val", v |-> v]
NoRet == [tag |-> "idle", v |-> NoValue]

\* TypeId::of::<Arc<T>>()
ArcSelf(T) == T
ArcOf(T) == CASE T = "Logger" -> "ArcLogger" [] T = "Boss" -> "ArcBoss" [] T = "Node" -> "ArcNode"

\* Arc::new(value): a handle of type Arc<T> to the object.
ArcNew(v) == [v EXCEPT !.ty = ArcOf(v.ty)]

\* The resolve calls T::construct makes: Boss resolves Arc<Logger>, Logger
\* and TestAudioManager resolve nothing.  Node is a type whose construct
\* resolves Arc<Node>, the way Boss's resolves Arc<Logger>.
NoDeps(T) == <<>>
Deps(T) ==
    CASE T = "Boss" -> <<"ArcLogger">>
      [] T = "Node" -> <<"ArcNode">>
      [] OTHER -> <<>>

\* <E as ConstructAs>::Target
TargetSelf(E) == E
TargetOf(E) == "RcDynAudioManager"

\* The keys resolve_for is called with.
ForKeys == {"u32", "ArcLogger"}

\* The type resolve_for is asked to downcast to, one that is not the key.
OtherType(K) == IF K = "u32" THEN "ArcLogger" ELSE "u32"

\* The parent `()`.
UnitParent == [mode |-> "unit", of |-> 0]

\* A table slot: no constructor, or the closure a registration built.
\* `owner` and `key` are ghost fields: the slot the closure was inserted in.
NoCtor == [kind |-> "none", of |-> "none", val |-> 0, owner |-> 0, key |-> "none"]
Ctor(kind, of, val) == [kind |-> kind, of |-> of, val |-> val, owner |-> 0, key |-> "none"]

EmptyTable == [K \in TypeIds |-> NoCtor]

VARIABLES
    ncontainers,    \* containers created so far: 1..ncontainers exist
    parent,         \* parent[c]: the `parent` field of container c
    constructors,   \* constructors[c]: the `constructors` table of container c
    cells,          \* cells[c][K]: the Mutex<Option<Arc<T>>> of the singleton closure in slot (c, K)
    gen,            \* gen[c][K]: objects the closures of slot (c, K) have constructed
    regs,           \* registration calls made so far
    reg_result,     \* the last registration call and what it returned
    accepted,       \* ghost: accepted[c][K], the closure of the registration that returned Ok
    stack,          \* stack[t]: the call stack of thread t
    ret,            \* ret[t]: the value the last returned call handed to its caller
    out,            \* out[t]: the last finished top-level resolve of thread t
    built,          \* ghost: built[c][K], inner constructions the singleton closure has started
    given           \* ghost: given[c][K], objects the singleton closure has returned

vars == <<ncontainers, parent, constructors, cells, gen, regs, reg_result, accepted,
          stack, ret, out, built, given>>

table_vars == <<ncontainers, parent, constructors, regs, accepted>>
cell_vars == <<cells, built, given>>

NoReg == [c |-> 0, key |-> "none", kind |-> "none", result |-> "none"]
\* `copy` is the caller's own variable holding the value it got.
\* `path` is the frame's last position: "call" when the closure answered at
\* once, "boxed" or "store" when it first ran T::construct.
NoOut == [res |-> 0, key |-> "none", want |-> "none", tag |-> "idle", v |-> NoValue,
          by |-> NoCtor, path |-> "none", copy |-> NoValue]
\* out[t] while a resolve of thread t is running.
Running == [NoOut EXCEPT !.tag = "running"]

Exists(c) == c \in 1..ncontainers
\* Thread t is between two calls: its last result is taken, and it has not
\* panicked.
Ready(t) == stack[t] = <<>> /\ out[t] = NoOut
\* No Resolver borrows a container, and the caller is there to go on.
Idle == \A t \in Threads : Ready(t)
\* `c` is neither borrowed by nor moved into a child: &mut c can be taken.
NoChild(c) == \A d \in 1..ncontainers : parent[d].of # c

Slots(x) == [c \in Containers |-> [K \in TypeIds |-> x]]

\* ------------------------------------------------------------ registration
\* Container::new(): no parent, no constructors.
Init ==
    /\ ncontainers = 1
    /\ parent = [c \in Containers |-> UnitParent]
    /\ constructors = [c \in Containers |-> EmptyTable]
    /\ cells = Slots(NoValue)
    /\ gen = Slots(0)
    /\ regs = 0
    /\ reg_result = NoReg
    /\ accepted = [c \in Containers |-> EmptyTable]
    /\ stack = [t \in Threads |-> <<>>]
    /\ ret = [t \in Threads |-> NoRet]
    /\ out = [t \in Threads |-> NoOut]
    /\ built = Slots(0)
    /\ given = Slots({})

\* Container::with_parent(parent): a new container, its table empty, its
\* parent field the borrowed (&p) or shared (Arc<p>) container p.  The
\* containers of a run form one chain: p is the newest one.
WithParent(p, mode) ==
    /\ Idle
    /\ p = ncontainers
    /\ ncontainers < MaxContainers
    /\ ncontainers' = ncontainers + 1
    /\ parent' = [parent EXCEPT ![ncontainers + 1] = [mode |-> mode, of |-> p]]
    /\ constructors' = [constructors EXCEPT ![ncontainers + 1] = EmptyTable]
    /\ reg_result' = NoReg
    /\ UNCHANGED <<regs, accepted, gen, stack, ret, out, cell_vars>>

\* BTreeMap::insert(key, constructor): the table afterwards.  The new value is
\* stored whether or not the key was present.
MapInsert(table, K, ctor) == [table EXCEPT ![K] = ctor]

\* What register_constructor returns: Err(AlreadyRegistered) when insert
\* handed back an old value (the key was present in this table), else Ok(()).
InsertResultNoCheck(table, K) == "Ok"
InsertResult(table, K) ==
    IF table[K].kind # "none" THEN "AlreadyRegistered" ELSE "Ok"

Stamp(ctor, c, K) == [ctor EXCEPT !.owner = c, !.key = K]

\* self.constructors of a registration call on container c: c's own table.
TableOfRoot(c) == 1
TableOf(c) == c

\* Container::register_constructor::<K>(constructor) on container c.  The
\* closure that was in the slot, with the cell it captured, is dropped; a
\* singleton closure comes with a fresh, empty Mutex<Option<Arc<T>>>.
register_constructor(c, K, ctor) ==
    LET stamped == Stamp(ctor, c, K)
        result == InsertResult(constructors[c], K)
    IN  /\ Idle
        /\ Exists(c)
        /\ NoChild(c)
        /\ regs < MaxRegs
        /\ constructors' = [constructors EXCEPT
                               ![TableOf(c)] = MapInsert(constructors[TableOf(c)], K, stamped)]
        /\ regs' = regs + 1
        /\ reg_result' = [c |-> c, key |-> K, kind |-> ctor.kind, result |-> result]
        /\ accepted' = IF result = "Ok"
                       THEN [accepted EXCEPT ![c][K] = stamped]
                       ELSE accepted
        /\ cells' = [cells EXCEPT ![c][K] = NoValue]
        /\ built' = [built EXCEPT ![c][K] = 0]
        /\ given' = [given EXCEPT ![c][K] = {}]
        /\ UNCHANGED <<ncontainers, parent, gen, stack, ret, out>>

\* register_clone::<u32>(value)
RegisterClone(c, v) == register_constructor(c, "u32", Ctor("clone", "u32", v))

\* register_construct::<T>()
RegisterConstruct(c, T) == register_constructor(c, T, Ctor("construct", T, 0))

\* register_construct_other::<T, E>() with T = E::Target
RegisterConstructOther(c, E) ==
    register_constructor(c, TargetOf(E), Ctor("construct_other", E, 0))

\* when::<u32>().construct_with(|_| 42)
ConstructWith(c) == register_constructor(c, "u32", Ctor("custom", "u32", ClosureValue))

\* register_singleton::<T>(): the closure is registered under
\* TypeId::of::<Arc<T>>().
RegisterSingleton(c, T) == register_constructor(c, ArcOf(T), Ctor("singleton", T, 0))

\* ------------------------------------------------------------------ lookup
\* GetConstructor::get_constructor for (), Container<P>, &Container<P> and
\* Arc<G>: the local entry, or else the parent's answer.
RECURSIVE ContainerGet(_, _), RefGet(_, _), ArcGet(_, _), ParentGet(_, _)

UnitGet(K) == NoCtor

ParentGet(p, K) ==
    CASE p.mode = "unit" -> UnitGet(K)
      [] p.mode = "ref" -> RefGet(p.of, K)
      [] p.mode = "arc" -> ArcGet(p.of, K)

\* Option::or
ParentFirst(a, b) == IF b.kind # "none" THEN b ELSE a
LocalOnly(a, b) == a
OptionOr(a, b) == IF a.kind # "none" THEN a ELSE b

ContainerGet(c, K) == OptionOr(constructors[c][K], ParentGet(parent[c], K))

RefGet(c, K) == OptionOr(constructors[c][K], ParentGet(parent[c], K))

ArcLocalOnly(c, K) == constructors[c][K]
ArcGet(c, K) == ContainerGet(c, K)

\* self.0.get_constructor(&TypeId::of::<K>()) of a Resolver borrowing container r
get_constructor(r, K) == ContainerGet(r, K)

\* -------------------------------------------------------------- resolution
\* A call frame: Resolver::resolve / resolve_for of `key`, downcasting to
\* `want`, on a Resolver borrowing container `res`, running closure `ctor`;
\* or T::construct(locator), T = ty, called by closure `ctor` with a locator
\* borrowing `res`.
ResolveFrame(K, E, r) ==
    [fn |-> "resolve", key |-> K, want |-> E, res |-> r, pc |-> "call", ctor |-> NoCtor,
     ty |-> "none"]
ConstructFrame(T, r, ctor) ==
    [fn |-> "construct", key |-> "none", want |-> "none", res |-> r, pc |-> "enter",
     ctor |-> ctor, ty |-> T]

Top(t) == stack[t][Len(stack[t])]
Below(t) == SubSeq(stack[t], 1, Len(stack[t]) - 1)

\* (constructor)(self): the Resolver the strategy is called with is the one
\* resolve was called on.
ResolverOfOwner(r, ctor) == ctor.owner
StrategyResolver(r, ctor) == r

\* Box<dyn Any>::downcast::<E>().ok(): the value when its runtime type is E.
DowncastNever(box, E) == None
DowncastUnchecked(box, E) == Some(box)
Downcast(box, E) == IF box.ty = E THEN Some(box) ELSE None

\* value.clone() of the Box<u32> the clone closure captured.
CloneDefault(ctor) == U32(0)
CloneOf(ctor) == U32(ctor.val)

\* (constructor)(resolver) of the closure |_| 42 handed to construct_with.
ClosureCall(ctor) == U32(ctor.val)

\* &*singleton.lock().unwrap(): the Option the closure finds in its cell.
NeverCached(cur) == NoValue
SingletonCached(cur) == cur

\* The Mutex<Option<Arc<T>>> the singleton closure captured: one per
\* registration, moved into the closure, which every Resolver that finds the
\* entry runs through a clone of the same Arc.
CellOfScope(r, ctor) == r
CellOf(r, ctor) == ctor.owner

\* The object the next construction on behalf of closure `ctor` allocates.
ReusedId(ctor) == <<ctor.owner, ctor.key, 1>>
NewId(ctor) == <<ctor.owner, ctor.key, gen[ctor.owner][ctor.key] + 1>>
CanBuild(ctor) == gen[ctor.owner][ctor.key] < MaxBuilds
Allocated(ctor) == gen' = [gen EXCEPT ![ctor.owner][ctor.key] = @ + 1]

\* A resolve frame hands `opt` back: to the frame below, or, at the bottom of
\* the stack, to the caller.
Returned(t, below, f, opt) ==
    /\ stack' = [stack EXCEPT ![t] = below]
    /\ IF below = <<>>
       THEN /\ ret' = [ret EXCEPT ![t] = NoRet]
            /\ out' = [out EXCEPT ![t] = [res |-> f.res, key |-> f.key, want |-> f.want,
                                          tag |-> opt.tag, v |-> opt.v, by |-> f.ctor,
                                          path |-> f.pc, copy |-> opt.v]]
       ELSE /\ ret' = [ret EXCEPT ![t] = opt]
            /\ UNCHANGED out

\* A resolve frame waits for the T::construct call it pushes.
Pushed(t, below, f, g) ==
    /\ stack' = [stack EXCEPT ![t] = below \o <<f, g>>]
    /\ out' = IF below = <<>> THEN [out EXCEPT ![t] = Running] ELSE out
    /\ UNCHANGED ret

\* The singleton closure of slot (c, K) answers with `arc`.
Answered(c, K, arc) == given' = [given EXCEPT ![c][K] = @ \cup {arc.id}]

\* Resolver::resolve up to the first point where it waits for a nested call:
\* get_constructor, then the closure found is run on the Resolver.
Call(t, below, f0) ==
    LET ctor == get_constructor(f0.res, f0.key)
        f == [f0 EXCEPT !.ctor = ctor]
        loc == StrategyResolver(f.res, ctor)
        cell == IF ctor.kind = "singleton"
                THEN cells[CellOf(f.res, ctor)][ctor.key] ELSE NoValue
    IN
    \/ /\ ctor.kind = "none"
       /\ Returned(t, below, f, None)
       /\ UNCHANGED <<gen, cell_vars>>
    \/ /\ ctor.kind = "clone"
       /\ Returned(t, below, f, Downcast(CloneOf(ctor), f.want))
       /\ UNCHANGED <<gen, cell_vars>>
    \/ /\ ctor.kind = "custom"
       /\ Returned(t, below, f, Downcast(ClosureCall(ctor), f.want))
       /\ UNCHANGED <<gen, cell_vars>>
    \/ /\ ctor.kind = "construct_other"
       /\ CanBuild(ctor)
       /\ Allocated(ctor)
       /\ Returned(t, below, f, Downcast(Obj(TargetOf(ctor.of), NewId(ctor), NoId), f.want))
       /\ UNCHANGED cell_vars
    \/ /\ ctor.kind = "construct"
       /\ Pushed(t, below, [f EXCEPT !.pc = "boxed"], ConstructFrame(ctor.of, loc, ctor))
       /\ UNCHANGED <<gen, cell_vars>>
    \/ /\ ctor.kind = "singleton"
       /\ SingletonCached(cell) # NoValue
       /\ Returned(t, below, f, Downcast(cell, f.want))
       /\ Answered(ctor.owner, ctor.key, cell)
       /\ UNCHANGED <<gen, cells, built>>
    \/ /\ ctor.kind = "singleton"
       /\ SingletonCached(cell) = NoValue
       /\ built[ctor.owner][ctor.key] < MaxBuilds
       /\ Pushed(t, below, [f EXCEPT !.pc = "store"], ConstructFrame(ctor.of, loc, ctor))
       /\ built' = [built EXCEPT ![ctor.owner][ctor.key] = @ + 1]
       /\ UNCHANGED <<gen, cells, given>>

\* container.as_resolver().resolve::<K>() on thread t
Resolve(t, r, K) ==
    /\ Ready(t)
    /\ Exists(r)
    /\ Call(t, <<>>, ResolveFrame(K, K, r))
    /\ reg_result' = NoReg
    /\ UNCHANGED table_vars

\* container.as_resolver().resolve_for::<K, E>() on thread t
ResolveFor(t, r, K, E) ==
    /\ Ready(t)
    /\ Exists(r)
    /\ E # K
    /\ Call(t, <<>>, ResolveFrame(K, E, r))
    /\ reg_result' = NoReg
    /\ UNCHANGED table_vars

\* T::construct(locator), T without dependencies: Logger.
ConstructLeaf(t) ==
    /\ stack[t] # <<>>
    /\ Top(t).fn = "construct"
    /\ Top(t).pc = "enter"
    /\ Deps(Top(t).ty) = <<>>
    /\ CanBuild(Top(t).ctor)
    /\ Allocated(Top(t).ctor)
    /\ stack' = [stack EXCEPT ![t] = Below(t)]
    /\ ret' = [ret EXCEPT ![t] = Plain(Obj(Top(t).ty, NewId(Top(t).ctor), NoId))]
    /\ UNCHANGED <<out, cell_vars, table_vars, reg_result>>

\* Boss::construct(locator): locator.resolve::<Arc<Logger>>() ...
ConstructEnter(t) ==
    /\ stack[t] # <<>>
    /\ Top(t).fn = "construct"
    /\ Top(t).pc = "enter"
    /\ Deps(Top(t).ty) # <<>>
    /\ Call(t, Below(t) \o <<[Top(t) EXCEPT !.pc = "build"]>>,
            ResolveFrame(Deps(Top(t).ty)[1], Deps(Top(t).ty)[1], Top(t).res))
    /\ UNCHANGED <<table_vars, reg_result>>

\* ... .unwrap() on Some(logger): Self { logger }
ConstructBuild(t) ==
    /\ stack[t] # <<>>
    /\ Top(t).fn = "construct"
    /\ Top(t).pc = "build"
    /\ ret[t].tag = "some"
    /\ CanBuild(Top(t).ctor)
    /\ Allocated(Top(t).ctor)
    /\ stack' = [stack EXCEPT ![t] = Below(t)]
    /\ ret' = [ret EXCEPT ![t] = Plain(Obj(Top(t).ty, NewId(Top(t).ctor), ret[t].v.id))]
    /\ UNCHANGED <<out, cell_vars, table_vars, reg_result>>

\* ... .unwrap() on None: the thread panics and the whole resolve unwinds.
\* No MutexGuard is alive in any frame, so no cell is poisoned.
UnwrapPanic(t) ==
    /\ stack[t] # <<>>
    /\ Top(t).fn = "construct"
    /\ Top(t).pc = "build"
    /\ ret[t].tag = "nothing"
    /\ stack' = [stack EXCEPT ![t] = <<>>]
    /\ ret' = [ret EXCEPT ![t] = NoRet]
    /\ out' = [out EXCEPT ![t] = [res |-> stack[t][1].res, key |-> stack[t][1].key,
                                  want |-> stack[t][1].want, tag |-> "panic",
                                  v |-> NoValue, by |-> stack[t][1].ctor,
                                  path |-> stack[t][1].pc, copy |-> NoValue]]
    /\ UNCHANGED <<gen, cell_vars, table_vars, reg_result>>

\* The construct closure boxes what T::construct returned; resolve downcasts
\* the box.
Boxed(t) ==
    /\ stack[t] # <<>>
    /\ Top(t).fn = "resolve"
    /\ Top(t).pc = "boxed"
    /\ Returned(t, Below(t), Top(t), Downcast(ret[t].v, Top(t).want))
    /\ UNCHANGED <<gen, cell_vars, table_vars, reg_result>>

\* The singleton closure after T::construct returned:
\* let value = Arc::new(..); *singleton.lock().unwrap() = Some(value.clone());
SingletonStore(t) ==
    /\ stack[t] # <<>>
    /\ Top(t).fn = "resolve"
    /\ Top(t).pc = "store"
    /\ LET c == CellOf(Top(t).res, Top(t).ctor)
           K == Top(t).ctor.key
           value == ArcNew(ret[t].v)
       IN  /\ cells' = [cells EXCEPT ![c][K] = value]
           /\ Answered(c, K, value)
           /\ Returned(t, Below(t), Top(t), Downcast(value, Top(t).want))
    /\ UNCHANGED <<gen, built, table_vars, reg_result>>

\* The caller overwrites the u32 it got from its last resolve.
Mutate(t) ==
    /\ stack[t] = <<>>
    /\ out[t].copy.ty = "u32"
    /\ out[t].copy.val # 0
    /\ out' = [out EXCEPT ![t].copy.val = 0]
    /\ UNCHANGED <<stack, ret, gen, cell_vars, table_vars, reg_result>>

\* The caller is done with the value it resolved and drops it.  A thread
\* whose resolve panicked is gone.
Drop(t) ==
    /\ stack[t] = <<>>
    /\ out[t].tag \in {"some", "nothing"}
    /\ out' = [out EXCEPT ![t] = NoOut]
    /\ UNCHANGED <<stack, ret, gen, cell_vars, table_vars, reg_result>>

Step(t) ==
    \/ \E r \in Containers, K \in TypeIds : Resolve(t, r, K)
    \/ \E r \in Containers, K \in ForKeys : ResolveFor(t, r, K, OtherType(K))
    \/ ConstructLeaf(t)
    \/ ConstructEnter(t)
    \/ ConstructBuild(t)
    \/ UnwrapPanic(t)
    \/ Boxed(t)
    \/ SingletonStore(t)
    \/ Mutate(t)
    \/ Drop(t)

Setup ==
    \/ \E p \in Containers, m \in ParentModes : WithParent(p, m)
    \/ \E c \in Containers, v \in CloneValues : RegisterClone(c, v)
    \/ \E c \in Containers, T \in ConstructTypes : RegisterConstruct(c, T)
    \/ \E c \in Containers, E \in DelegateTypes : RegisterConstructOther(c, E)
    \/ \E c \in Containers : ConstructWith(c)
    \/ \E c \in Containers, T \in SingletonTypes : RegisterSingleton(c, T)

\* One caller: thread 1 registers and resolves; the other threads never run.
Next ==
    \/ Setup
    \/ Step(1)

Spec == Init /\ [][Next]_vars

\* ------------------------------------------------------------ many threads
\* The tests' containers, shared by the threads once set up: a parent and a
\* child holding it in an Arc (parent_container_owned), with many1's
\* registrations.  Two set-ups: the singleton Logger in the parent and the
\* singleton Boss in the child, or the other way round.
Registered(c, K, ctor) == Stamp(ctor, c, K)

TablesMT(loggerAt, bossAt) ==
    [c \in Containers |->
        [K \in TypeIds |->
            CASE c = loggerAt /\ K = "ArcLogger" ->
                    Registered(c, K, Ctor("singleton", "Logger", 0))
              [] c = bossAt /\ K = "ArcBoss" ->
                    Registered(c, K, Ctor("singleton", "Boss", 0))
              [] c = 1 /\ K = "u32" ->
                    Registered(c, K, Ctor("clone", "u32", 1))
              [] c = 2 /\ K = "Boss" ->
                    Registered(c, K, Ctor("construct", "Boss", 0))
              [] OTHER -> NoCtor]]

InitMT ==
    /\ ncontainers = 2
    /\ parent = [c \in Containers |->
                    IF c = 2 THEN [mode |-> "arc", of |-> 1] ELSE UnitParent]
    /\ \E loggerAt \in {1, 2} : constructors = TablesMT(loggerAt, 3 - loggerAt)
    /\ accepted = constructors
    /\ cells = Slots(NoValue)
    /\ gen = Slots(0)
    /\ regs = 4
    /\ reg_result = NoReg
    /\ stack = [t \in Threads |-> <<>>]
    /\ ret = [t \in Threads |-> NoRet]
    /\ out = [t \in Threads |-> NoOut]
    /\ built = Slots(0)
    /\ given = Slots({})

\* Registration takes &mut Container: none while the containers are shared.
NextMT == \E t \in Threads : Step(t)

SpecMT == InitMT /\ [][NextMT]_vars

\* ---------------------------------------------------------- one caller
\* The same containers, set up once and then used by one caller that only
\* resolves: the singleton Logger and the singleton Boss each in the parent or
\* in the child (in one container as in many1, or apart), and
\* register_singleton::<Node>() on one of the containers or on none.
InitTests ==
    /\ ncontainers = 2
    /\ parent = [c \in Containers |->
                    IF c = 2 THEN [mode |-> "arc", of |-> 1] ELSE UnitParent]
    /\ \E loggerAt \in {1, 2}, bossAt \in {1, 2}, nodeAt \in {0, 1, 2} :
          /\ constructors =
                [c \in Containers |->
                    [K \in TypeIds |->
                        IF c = nodeAt /\ K = "ArcNode"
                        THEN Registered(c, K, Ctor("singleton", "Node", 0))
                        ELSE TablesMT(loggerAt, bossAt)[c][K]]]
          /\ regs = IF nodeAt = 0 THEN 4 ELSE 5
    /\ accepted = constructors
    /\ cells = Slots(NoValue)
    /\ gen = Slots(0)
    /\ reg_result = NoReg
    /\ stack = [t \in Threads |-> <<>>]
    /\ ret = [t \in Threads |-> NoRet]
    /\ out = [t \in Threads |-> NoOut]
    /\ built = Slots(0)
    /\ given = Slots({})

NextTests == Step(1)

SpecTests == InitTests /\ [][NextTests]_vars

\* The caller's thread keeps running: a call that can take its next step
\* takes it.
SpecTestsFair == SpecTests /\ WF_vars(NextTests)
\* ------------------------------------------------------------------ claims
\* The containers a Resolver borrowing r can reach, nearest first.
RECURSIVE ChainOf(_)
ChainOf(c) == IF c = 0 THEN <<>> ELSE <<c>> \o ChainOf(parent[c].of)

Holds(c, K) == constructors[c][K].kind # "none"

\* The nearest container of r's chain that holds an entry for K, 0 if none.
Nearest(r, K) ==
    LET chain == ChainOf(r)
        at == {i \in 1..Len(chain) : Holds(chain[i], K)}
    IN  IF at = {} THEN 0
        ELSE chain[CHOOSE i \in at : \A j \in at : i <= j]

NearestEntry(r, K) == IF Nearest(r, K) = 0 THEN NoCtor ELSE constructors[Nearest(r, K)][K]

\* Thread t's last top-level call has returned to the caller.
Finished(t) == out[t].tag \in {"some", "nothing"}

\* v is a value the strategy of closure `ctor` hands out.
ProducedBy(ctor, v) ==
    CASE ctor.kind \in {"clone", "custom"} -> v = U32(ctor.val)
      [] ctor.kind = "singleton" -> v = cells[ctor.owner][ctor.key]
      [] ctor.kind = "construct" ->
            v.ty = ctor.of /\ v.id = <<ctor.owner, ctor.key, gen[ctor.owner][ctor.key]>>
      [] ctor.kind = "construct_other" ->
            /\ v.ty = TargetOf(ctor.of)
            /\ v.id = <<ctor.owner, ctor.key, gen[ctor.owner][ctor.key]>>
      [] OTHER -> FALSE

\* C1: once a registration for a key has succeeded on a container, a later
\* attempt that is rejected with AlreadyRegistered leaves the entry untouched:
\* every resolve that finds the slot still runs the closure of the
\* registration that returned Ok (register_clone(1), register_clone(2)
\* rejected, resolve still runs the closure that yields 1).
C1_ResolveRunsFirstRegistration ==
    \A t \in Threads :
        (Finished(t) /\ out[t].by.kind # "none") =>
            out[t].by = accepted[out[t].by.owner][out[t].by.key]

\* C2: when threads resolve a singleton whose cell is empty at the same time,
\* the inner construction runs once: the closure of the slot constructs one
\* object, and every caller gets a handle to that same object.
C2_ConcurrentFirstUseBuildsOnce ==
    \A c \in Containers, K \in TypeIds :
        constructors[c][K].kind = "singleton" =>
            gen[c][K] <= 1 /\ Cardinality(given[c][K]) <= 1

\* C3: a registration call returns AlreadyRegistered exactly when the table
\* of that same container held an entry for the key before the call, of
\* whatever kind; otherwise it returns Ok and the slot holds the new closure.
\* No other container's table plays a part or changes.
C3_RegistrationStep ==
    regs' = regs + 1 =>
        LET r == reg_result' IN
        /\ r.result = IF constructors[r.c][r.key].kind # "none"
                      THEN "AlreadyRegistered" ELSE "Ok"
        /\ r.result = "Ok" =>
              /\ constructors'[r.c][r.key].kind = r.kind
              /\ constructors'[r.c][r.key].owner = r.c
        /\ \A c \in Containers, K \in TypeIds :
              (c # r.c \/ K # r.key) => constructors'[c][K] = constructors[c][K]

C3_AlreadyRegisteredIffPresent == [][C3_RegistrationStep]_vars

\* A child's registration is accepted although its parent holds the key, in a
\* run where an attempt of another kind was rejected before.
C3_Witness ==
    /\ reg_result.result = "Ok"
    /\ reg_result.c > 1
    /\ Holds(parent[reg_result.c].of, reg_result.key)
    /\ \E c \in Containers, K \in TypeIds :
          /\ accepted[c][K].kind # "none"
          /\ accepted[c][K].kind # constructors[c][K].kind

\* A singleton closure memoizes: the closure in a slot starts its inner
\* construction at most once, hands out one object only, and every resolve it
\* answers returns the handle its cell holds.
CellFilledOnce ==
    /\ \A c \in Containers, K \in TypeIds :
          constructors[c][K].kind = "singleton" =>
              /\ built[c][K] <= 1
              /\ Cardinality(given[c][K]) <= 1
              /\ cells[c][K] # NoValue => built[c][K] = 1 /\ given[c][K] = {cells[c][K].id}
    /\ \A t \in Threads :
          (out[t].tag = "some" /\ out[t].by.kind = "singleton") =>
              /\ out[t].v = cells[out[t].by.owner][out[t].by.key]
              /\ out[t].v.id \in given[out[t].by.owner][out[t].by.key]

\* C4: for a key registered as a singleton (the registration returned Ok),
\* the resolutions one thread makes one after the other all return a handle to
\* the object the first of them constructed, and the slot constructs no
\* second object.
C4_SequentialResolutionsShareInstance ==
    \A c \in Containers, K \in TypeIds :
        accepted[c][K].kind = "singleton" =>
            /\ gen[c][K] <= 1
            /\ (Finished(1) /\ out[1].tag = "some" /\ out[1].want = out[1].key
                    /\ out[1].by.owner = c /\ out[1].by.key = K) =>
                  out[1].v.id = <<c, K, 1>>

\* C5: nearest scope wins.  A finished resolve ran the entry of the nearest
\* container of the resolver's chain that holds the key, whatever the
\* ancestors further up hold, and returned what that entry's strategy yields.
C5_NearestScopeWins ==
    \A t \in Threads :
        Finished(t) =>
            /\ out[t].by = NearestEntry(out[t].res, out[t].key)
            /\ (out[t].tag = "some" /\ out[t].by.kind \in {"clone", "custom", "singleton"}) =>
                  ProducedBy(NearestEntry(out[t].res, out[t].key), out[t].v)

\* A resolve through the third container of a chain finds the key in the
\* second, which shadows a different entry of the first.
C5_Witness ==
    /\ out[1].tag = "some"
    /\ out[1].res = 3
    /\ out[1].by.owner = 2
    /\ Holds(1, out[1].key)
    /\ constructors[1][out[1].key].val # out[1].by.val
    /\ out[1].v = U32(constructors[2][out[1].key].val)

\* C6: with_parent creates a container with an empty table whose parent is
\* the upstream given; a resolve through it of a key it does not hold but
\* its upstream does returns Some of what the upstream's strategy yields.
C6_NewContainerIsEmpty ==
    ncontainers' # ncontainers =>
        /\ ncontainers' = ncontainers + 1
        /\ constructors'[ncontainers'] = EmptyTable
        /\ parent'[ncontainers'].of \in 1..ncontainers
        /\ \A c \in 1..ncontainers :
              constructors'[c] = constructors[c] /\ parent'[c] = parent[c]

C6_FallsBackToUpstream ==
    \A t \in Threads :
        (/\ Finished(t)
         /\ out[t].want = out[t].key
         /\ ~Holds(out[t].res, out[t].key)
         /\ parent[out[t].res].of # 0
         /\ Nearest(parent[out[t].res].of, out[t].key) # 0) =>
            /\ out[t].tag = "some"
            /\ out[t].by = NearestEntry(parent[out[t].res].of, out[t].key)
            /\ ProducedBy(NearestEntry(parent[out[t].res].of, out[t].key), out[t].v)

C6_WithParentFallsBack == [](C6_FallsBackToUpstream) /\ [][C6_NewContainerIsEmpty]_vars

\* A child without entries of its own resolves a key of its parent.
C6_Witness ==
    /\ out[1].tag = "some"
    /\ out[1].res = 2
    /\ constructors[2] = EmptyTable
    /\ out[1].by.owner = 1

\* C7: the strategy of an entry found in an ancestor is run on the Resolver
\* resolve was called on: every frame of a call stack borrows the container
\* of the bottom frame, and a Boss built by an entry found above the resolver's
\* container holds the Logger of the nearest Arc<Logger> entry as seen from
\* that container, the child's when the child shadows the ancestor's.
C7_StrategySeesOriginalResolver ==
    \A t \in Threads :
        /\ \A i \in 1..Len(stack[t]) : stack[t][i].res = stack[t][1].res
        /\ (out[t].tag = "some" /\ out[t].by.kind = "construct" /\ out[t].key = "Boss") =>
              /\ Nearest(out[t].res, "ArcLogger") # 0
              /\ NearestEntry(out[t].res, "ArcLogger").kind = "singleton"
              /\ out[t].v.dep = cells[Nearest(out[t].res, "ArcLogger")]["ArcLogger"].id

\* Boss is found in an ancestor only; the child shadows the ancestor's
\* Arc<Logger>, and the Boss holds the child's Logger.
C7_Witness ==
    /\ out[1].tag = "some"
    /\ out[1].key = "Boss"
    /\ out[1].by.owner # out[1].res
    /\ Holds(out[1].res, "ArcLogger")
    /\ Holds(out[1].by.owner, "ArcLogger")
    /\ out[1].v.dep = cells[out[1].res]["ArcLogger"].id
    /\ out[1].v.dep # cells[out[1].by.owner]["ArcLogger"].id

\* C8: a resolve that returns, returns None exactly when no container of the
\* resolver's chain holds the key; None carries no value, and a key held
\* nowhere in the chain makes no resolve panic.
C8_NoneIffAbsent ==
    \A t \in Threads :
        /\ (Finished(t) /\ out[t].want = out[t].key) =>
              /\ out[t].tag = "nothing" <=> Nearest(out[t].res, out[t].key) = 0
              /\ out[t].tag = "nothing" => out[t].v = NoValue
              /\ out[t].tag = "some" => out[t].v.ty = out[t].key
        /\ out[t].tag = "panic" => Nearest(out[t].res, out[t].key) # 0

\* None for a key that a container outside the resolver's chain holds.
C8_Witness ==
    /\ out[1].tag = "nothing"
    /\ out[1].want = out[1].key
    /\ \E c \in Containers : Holds(c, out[1].key)

\* A resolve that finds a clone entry returns Some of the value the closure
\* in the table captured, whatever was resolved before and whatever the
\* caller did to the copies it got; the captured value stays as it was.
CloneEntryYieldsItsValue ==
    \A t \in Threads :
        (Finished(t) /\ out[t].want = out[t].key /\ out[t].by.kind = "clone") =>
            /\ out[t].tag = "some"
            /\ out[t].v = U32(out[t].by.val)
            /\ constructors[out[t].by.owner][out[t].by.key] = out[t].by

\* C9: for a key registered with register_clone(v) (the call returned Ok),
\* every resolve that finds the slot returns Some(v), after earlier
\* resolutions and after the caller has overwritten copies it resolved.
C9_CloneYieldsRegisteredValue ==
    \A t \in Threads :
        (/\ Finished(t)
         /\ out[t].want = out[t].key
         /\ out[t].by.kind # "none"
         /\ accepted[out[t].by.owner][out[t].by.key].kind = "clone") =>
            /\ out[t].tag = "some"
            /\ out[t].v = U32(accepted[out[t].by.owner][out[t].by.key].val)

\* C10: a step of a resolve (any step that is neither a registration nor
\* with_parent) changes no table and no parent link, and the only change it
\* makes to a singleton cell is from empty to populated.
C10_ResolveStep ==
    (regs' = regs /\ ncontainers' = ncontainers) =>
        /\ constructors' = constructors
        /\ parent' = parent
        /\ \A c \in Containers, K \in TypeIds :
              cells'[c][K] # cells[c][K] => cells[c][K] = NoValue

C10_ResolveChangesOnlyEmptyCells == [][C10_ResolveStep]_vars

\* C11: a registration call on a container, accepted or rejected, changes
\* nothing in any other container: their tables, parent links and singleton
\* cells stay as they were, and every lookup made directly through an ancestor
\* finds the closure it found before.
C11_RegistrationStep ==
    regs' = regs + 1 =>
        LET r == reg_result' IN
        /\ parent' = parent
        /\ \A c \in Containers :
              c # r.c => constructors'[c] = constructors[c] /\ cells'[c] = cells[c]
        /\ \A c \in Containers, a \in Containers, K \in TypeIds :
              (r.c = c /\ a # c /\ \E i \in 1..Len(ChainOf(c)) : ChainOf(c)[i] = a) =>
                  get_constructor(a, K)' = get_constructor(a, K)

C11_ChildRegistrationLeavesAncestors == [][C11_RegistrationStep]_vars

\* A registration on a child has been rejected while its parent holds an
\* entry for the same key, the one the parent accepted.
C11_Witness ==
    /\ reg_result.result = "AlreadyRegistered"
    /\ reg_result.c > 1
    /\ Holds(parent[reg_result.c].of, reg_result.key)
    /\ constructors[parent[reg_result.c].of][reg_result.key]
          = accepted[parent[reg_result.c].of][reg_result.key]

\* C12: a parent held by borrow and a parent held in an Arc answer alike.
\* In every state, with the same tables, the lookup through &c and the lookup
\* through Arc<c> return the same closure for every container and key, and
\* the closure a finished resolve ran is the one its parent would have
\* handed up under either mode; a resolve that returned Some returned what
\* that closure yields.
C12_BorrowedAndOwnedParentAgree ==
    /\ \A c \in 1..ncontainers, K \in TypeIds :
          /\ RefGet(c, K) = ArcGet(c, K)
          /\ ParentGet([mode |-> "ref", of |-> c], K) = ParentGet([mode |-> "arc", of |-> c], K)
    /\ \A t \in Threads :
          (Finished(t) /\ parent[out[t].res].of # 0) =>
              /\ out[t].by = OptionOr(constructors[out[t].res][out[t].key],
                                      RefGet(parent[out[t].res].of, out[t].key))
              /\ out[t].by = OptionOr(constructors[out[t].res][out[t].key],
                                      ArcGet(parent[out[t].res].of, out[t].key))
              /\ (out[t].tag = "some" /\ out[t].by.kind \in {"clone", "custom", "singleton"}) =>
                    ProducedBy(out[t].by, out[t].v)

\* A resolve through the third container of a chain with one borrowed and
\* one owned link is answered by an entry of the first.
C12_Witness ==
    /\ out[1].tag = "some"
    /\ out[1].res = 3
    /\ out[1].by.owner = 1
    /\ parent[2].mode # parent[3].mode

\* The singleton types whose construct resolves the type's own shared handle.
CyclicTypes == {"Node"}

CyclicEntry(ctor) == ctor.kind = "singleton" /\ ctor.of \in CyclicTypes

\* C13: a resolve that runs the closure of a singleton whose construction
\* resolves the same singleton again never returns: no call of it ever ends
\* with Some, None or a panic, its stack only grows, and the cell of the entry
\* stays empty, with nothing constructed and nothing handed out.
C13_NothingComesBack ==
    /\ \A c \in Containers, K \in TypeIds :
          CyclicEntry(constructors[c][K]) =>
              cells[c][K] = NoValue /\ given[c][K] = {} /\ gen[c][K] = 0
    /\ \A t \in Threads :
          out[t].tag \in {"some", "nothing", "panic"} =>
              ~CyclicEntry(NearestEntry(out[t].res, out[t].key))

C13_StackOnlyGrows ==
    \A t \in Threads :
        (stack[t] # <<>> /\ CyclicEntry(stack[t][1].ctor)) =>
            /\ Len(stack'[t]) >= Len(stack[t])
            /\ out'[t] = Running

C13_CyclicSingletonNeverCompletes == [](C13_NothingComesBack) /\ [][C13_StackOnlyGrows]_vars

\* The recursion has gone as deep as the model follows it: the closure has
\* been entered MaxBuilds times within one resolve, and the cell is empty.
C13_Witness ==
    /\ stack[1] # <<>>
    /\ CyclicEntry(stack[1][1].ctor)
    /\ Len(stack[1]) >= 4
    /\ built[stack[1][1].ctor.owner][stack[1][1].ctor.key] = MaxBuilds
    /\ cells[stack[1][1].ctor.owner][stack[1][1].ctor.key] = NoValue

\* The kinds of closure that build anew on every call.
TransientKinds == {"construct", "construct_other", "custom"}

\* A finished resolve that found a transient, delegate or custom entry
\* returned Some of what the entry's closure yields: the number of the custom
\* closure, or the object the closure constructed last.
C14_ReturnsWhatWasBuilt ==
    \A t \in Threads :
        (Finished(t) /\ out[t].want = out[t].key /\ out[t].by.kind \in TransientKinds) =>
            out[t].tag = "some" /\ ProducedBy(out[t].by, out[t].v)

\* One call, one construction.  A resolve of the caller that finds a delegate
\* or custom entry runs the closure within the step: the delegate constructs
\* one object and returns it, the custom closure constructs none.  A resolve
\* that finds a transient entry calls T::construct once, on the Resolver it
\* was called on; the slot's count of constructed objects goes up by one when
\* that call returns and at no other step of the resolve, and the resolve
\* returns that object.
C14_OneConstructionPerCall ==
    LET n(ctor) == gen[ctor.owner][ctor.key]
        n1(ctor) == gen'[ctor.owner][ctor.key]
    IN
    /\ (Ready(1) /\ Finished(1)' /\ out'[1].by.kind = "construct_other") =>
          /\ n1(out'[1].by) = n(out'[1].by) + 1
          /\ out'[1].v.id = <<out'[1].by.owner, out'[1].by.key, n1(out'[1].by)>>
    /\ (Ready(1) /\ Finished(1)' /\ out'[1].by.kind = "custom") => gen' = gen
    /\ (Ready(1) /\ stack'[1] # <<>> /\ stack'[1][1].ctor.kind = "construct") =>
          /\ gen' = gen
          /\ Len(stack'[1]) = 2
          /\ stack'[1][2].fn = "construct"
          /\ stack'[1][2].res = stack'[1][1].res
    /\ (stack[1] # <<>> /\ stack[1][1].ctor.kind = "construct") =>
          /\ n1(stack[1][1].ctor) = n(stack[1][1].ctor)
                + (IF Len(stack[1]) = 2 /\ Len(stack'[1]) = 1 THEN 1 ELSE 0)
          /\ (Len(stack[1]) = 1 /\ stack'[1] = <<>>) =>
                /\ out'[1].tag = "some"
                /\ out'[1].v = ret[1].v
                /\ out'[1].v.id = <<stack[1][1].ctor.owner, stack[1][1].ctor.key,
                                    n(stack[1][1].ctor)>>

C15_WrongTypeIsNone ==
    \A t \in Threads :
        /\ (Finished(t) /\ out[t].want # out[t].key) =>
              /\ out[t].tag = "nothing"
              /\ out[t].v = None.v
              /\ out[t].copy = NoValue
        /\ out[t].tag = "panic" => out[t].want = out[t].key

\* resolve_for has run a registered closure and returned None.
C15_Witness ==
    /\ out[1].tag = "nothing"
    /\ out[1].want # out[1].key
    /\ out[1].by.kind # "none"
    /\ out[1].by = NearestEntry(out[1].res, out[1].key)

\* The object the one Logger singleton of the containers holds, NoId while
\* its cell is empty.
TheLogger ==
    LET at == CHOOSE c \in Containers : Holds(c, "ArcLogger")
    IN  cells[at]["ArcLogger"].id

\* C16 as stated: with Logger and Boss both registered as singletons, a
\* resolution of Boss after the first returns a Boss other than the first.
C16_SecondBossIsDistinct ==
    \A t \in Threads :
        (/\ out[t].tag = "some"
         /\ out[t].key = "ArcBoss"
         /\ out[t].by.kind = "singleton"
         /\ out[t].path = "call") =>
            out[t].v.id # <<out[t].by.owner, out[t].by.key, 1>>

\* C16, amended: with Logger and Boss both registered as singletons, every
\* resolution of Arc<Boss> returns a handle to the one Boss the first
\* resolution constructed, and that Boss holds the one Logger; the resolutions
\* that return distinct Boss objects are those of the transient entry for
\* Boss, and each of those objects holds that same Logger, of which one only
\* is ever constructed.
C16_OneBossOneLogger ==
    /\ \A c \in Containers : Holds(c, "ArcLogger") => gen[c]["ArcLogger"] <= 1
    /\ \A t \in Threads :
          (Finished(t) /\ out[t].tag = "some" /\ out[t].key \in {"ArcBoss", "Boss"}) =>
              /\ TheLogger # NoId
              /\ out[t].v.dep = TheLogger
              /\ out[t].key = "ArcBoss" =>
                    /\ out[t].v = cells[out[t].by.owner]["ArcBoss"]
                    /\ out[t].v.id = <<out[t].by.owner, "ArcBoss", 1>>
                    /\ gen[out[t].by.owner]["ArcBoss"] = 1
              /\ out[t].key = "Boss" =>
                    out[t].v.id = <<out[t].by.owner, "Boss", gen[out[t].by.owner]["Boss"]>>

\* Arc<Boss> has been resolved a second time and answered from the cell, with
\* Logger and Boss registered as singletons of one container.
C16_Witness ==
    /\ out[1].tag = "some"
    /\ out[1].key = "ArcBoss"
    /\ out[1].path = "call"
    /\ Holds(out[1].by.owner, "ArcLogger")
    /\ out[1].v.id = <<out[1].by.owner, "ArcBoss", 1>>
    /\ out[1].v.dep = TheLogger


\* A registration through register_construct_other::<T, E> stores one closure,
\* the delegate to E, under T = E::Target in the table of the container it
\* was called on, and changes no other entry of any table: none appears
\* under E.
C17_DelegateStep ==
    (regs' = regs + 1 /\ reg_result'.kind = "construct_other") =>
        LET r == reg_result' IN
        /\ r.key = "RcDynAudioManager"
        /\ constructors'[r.c][r.key].kind = "construct_other"
        /\ constructors'[r.c][r.key].of \in DelegateTypes
        /\ \A c \in Containers, K \in TypeIds :
              (c # r.c \/ K # r.key) => constructors'[c][K] = constructors[c][K]

\* A finished resolve::<T> that found a delegate entry returned Some of the
\* T that E::construct_as built in that call; E has no entry anywhere, and a
\* finished resolve::<E> returned None.
C17_ReturnsDelegateValue ==
    /\ \A t \in Threads :
          (Finished(t) /\ out[t].want = out[t].key /\ out[t].by.kind = "construct_other") =>
              /\ out[t].key = "RcDynAudioManager"
              /\ out[t].tag = "some"
              /\ out[t].v.ty = "RcDynAudioManager"
              /\ out[t].v.id = <<out[t].by.owner, out[t].by.key,
                                 gen[out[t].by.owner][out[t].by.key]>>
    /\ \A c \in Containers, E \in DelegateTypes :
          /\ constructors[c][E] = NoCtor
          /\ get_constructor(c, E) = NoCtor
    /\ \A t \in Threads, E \in DelegateTypes :
          (Finished(t) /\ out[t].key = E) => out[t].tag = "nothing"

C18_CellStep ==
    regs' = regs =>
        /\ \A c \in Containers, K \in TypeIds :
              cells[c][K] # NoValue => cells'[c][K] = cells[c][K]
        /\ \A t \in Threads :
              LET o == out'[t] IN
              (out'[t] # out[t] /\ o.tag = "some" /\ o.by.kind = "singleton"
                    /\ cells[o.by.owner][o.by.key] # NoValue) =>
                  o.v.id = cells[o.by.owner][o.by.key].id

\* C18: a singleton cell goes from unconstructed to constructed at most once,
\* with one caller or several: once it holds a handle no later step replaces
\* it with a handle to another instance, and every read after the first store
\* returns that instance.
C18_CellTransitionsAtMostOnce == [][C18_CellStep]_vars


\* Thread t is inside the first construction of the singleton of slot (c, K):
\* its closure found the cell None and has not stored yet.
Constructing(t, c, K) ==
    \E i \in 1..Len(stack[t]) :
        /\ stack[t][i].fn = "resolve"
        /\ stack[t][i].pc = "store"
        /\ stack[t][i].ctor.owner = c
        /\ stack[t][i].ctor.key = K

\* C19: from finding the cell empty until the store, the resolving thread
\* has the cell to itself: no other thread finds the same cell empty and
\* enters the construction of the same singleton in the meantime.
C19_ConstructionExcludesOthers ==
    \A c \in Containers, K \in TypeIds, t1 \in Threads, t2 \in Threads :
        t1 # t2 => ~(Constructing(t1, c, K) /\ Constructing(t2, c, K))


\* The singletons of many1: Boss, whose construct resolves Arc<Logger>, and
\* Logger, which resolves nothing.
AcyclicTypes == {"Logger", "Boss"}

\* The caller is inside the first construction of a singleton Boss or Logger,
\* on a Resolver from which the singleton Logger that Boss needs is in reach.
AcyclicSingletonCall ==
    /\ stack[1] # <<>>
    /\ stack[1][1].ctor.kind = "singleton"
    /\ stack[1][1].ctor.of \in AcyclicTypes
    /\ stack[1][1].ctor.of = "Boss" =>
          NearestEntry(stack[1][1].res, "ArcLogger").kind = "singleton"

\* The cell of singleton slot (c, K) holds the one object its closure built.
PopulatedOnce(c, K) ==
    /\ cells[c][K] # NoValue
    /\ cells[c][K].id = <<c, K, 1>>
    /\ gen[c][K] = 1
    /\ built[c][K] = 1

\* The call has returned, a resolve (or a resolve_for asked for the type of
\* the entry) with Some of the handle in its cell, and the cell of every
\* singleton it needed is populated, each by one construction.
AcyclicDone ==
    /\ stack[1] = <<>>
    /\ Finished(1)
    /\ out[1].by.kind = "singleton"
    /\ out[1].want = out[1].key =>
          /\ out[1].tag = "some"
          /\ out[1].v = cells[out[1].by.owner][out[1].by.key]
    /\ PopulatedOnce(out[1].by.owner, out[1].by.key)
    /\ out[1].by.of = "Boss" =>
          /\ Nearest(out[1].res, "ArcLogger") # 0
          /\ PopulatedOnce(Nearest(out[1].res, "ArcLogger"), "ArcLogger")
          /\ out[1].v.dep = cells[Nearest(out[1].res, "ArcLogger")]["ArcLogger"].id

\* The closure of a singleton Boss or Logger starts and completes at most
\* one construction, however many resolutions are made and in whatever order,
\* and a populated cell holds the object of that one construction.
C20_EachBuiltOnce ==
    \A c \in Containers, K \in TypeIds :
        (constructors[c][K].kind = "singleton" /\ constructors[c][K].of \in AcyclicTypes) =>
            /\ built[c][K] <= 1
            /\ gen[c][K] <= 1
            /\ Cardinality(given[c][K]) <= 1
            /\ cells[c][K] # NoValue => PopulatedOnce(c, K)

\* The step that ends such a call ends it with the cells populated.
C20_ReturnStep == (AcyclicSingletonCall /\ stack'[1] = <<>>) => AcyclicDone'

\* C20: on one thread, resolving a singleton whose construction resolves a
\* different singleton (Boss needing Logger) comes to an end, neither blocked
\* nor recursing for ever, with both cells populated, and each of the two
\* singletons is constructed exactly once over repeated resolutions of
\* either type in any order.
C20_AcyclicSingletonsTerminate ==
    /\ [](C20_EachBuiltOnce)
    /\ [][C20_ReturnStep]_vars
    /\ (AcyclicSingletonCall ~> AcyclicDone)

\* Logger was resolved first and Boss after it, then Boss again: both cells
\* are populated, the Boss holds the Logger that was built first, and the
\* last resolve was answered from the cell.
C20_Witness ==
    /\ AcyclicDone
    /\ out[1].tag = "some"
    /\ out[1].by.of = "Boss"
    /\ out[1].path = "call"
    /\ Cardinality(given[Nearest(out[1].res, "ArcLogger")]["ArcLogger"]) = 1
    /\ built[Nearest(out[1].res, "ArcLogger")]["ArcLogger"] = 1


\* A resolve or resolve_for, made on any Resolver, that finds a singleton
\* entry whose cell is populated is answered within the step from that cell:
\* nothing is constructed, no cell changes, and a resolve returns Some of the
\* handle the cell holds.
C21_AnsweredFromOwnersCell ==
    \A K \in TypeIds :
        LET e == stack'[1][1].ctor IN
        (/\ Ready(1)
         /\ out'[1] # out[1]
         /\ regs' = regs
         /\ ncontainers' = ncontainers
         /\ (IF stack'[1] = <<>> THEN out'[1].by ELSE e).kind = "singleton"
         /\ (IF stack'[1] = <<>> THEN out'[1].by ELSE e).key = K
         /\ cells[(IF stack'[1] = <<>> THEN out'[1].by ELSE e).owner][K] # NoValue) =>
            /\ stack'[1] = <<>>
            /\ cells' = cells
            /\ gen' = gen
            /\ built' = built
            /\ out'[1].want = K => out'[1].tag = "some"
            /\ out'[1].tag = "some" => out'[1].v = cells[out'[1].by.owner][K]

\* The entry a finished resolve ran is the nearest one on the chain of the
\* Resolver it was made on, wherever on the chain that is; when it is a
\* singleton entry, the value returned is the handle in the cell of the
\* container that registered it, and that closure has started one
\* construction and handed out one instance in total.
C21_OneCellForAllScopes ==
    \A t \in Threads :
        (Finished(t) /\ out[t].by.kind = "singleton") =>
            LET c == out[t].by.owner
                K == out[t].by.key
            IN  /\ c = Nearest(out[t].res, K)
                /\ constructors[c][K] = out[t].by
                /\ cells[c][K] # NoValue
                /\ cells[c][K].id = <<c, K, gen[c][K]>>
                /\ built[c][K] = 1
                /\ given[c][K] = {cells[c][K].id}
                /\ \A d \in Containers : d # c => given[d][K] \cap given[c][K] = {}
                /\ out[t].tag = "some" => out[t].v = cells[c][K]

\* C21: a singleton registered on a parent has one cell, shared by every
\* Resolver that reaches it: resolving through the parent and through
\* children that do not shadow it returns the identical instance, and the
\* construction runs once in total, not once per scope.
C21_ParentSingletonSharedByChildren ==
    [](C21_OneCellForAllScopes) /\ [][C21_AnsweredFromOwnersCell]_vars

\* A resolve made on a grandchild was answered from the cell of the singleton
\* its grandparent registered, which holds the one instance built.
C21_Witness ==
    /\ out[1].tag = "some"
    /\ out[1].by.kind = "singleton"
    /\ out[1].path = "call"
    /\ out[1].by.owner = 1
    /\ out[1].res = 3
    /\ built[1][out[1].key] = 1
    /\ out[1].v = cells[1][out[1].key]


\* The store that ends the first construction of a singleton Boss, begun by
\* a resolve on Resolver r, puts into the cell of the registering container a
\* Boss holding the Logger that r reaches: the one nearest on r's chain, which
\* need not be the one nearest to the container that registered Boss.
C22_StoreStep ==
    (/\ stack[1] # <<>>
     /\ Top(1).fn = "resolve"
     /\ Top(1).pc = "store"
     /\ Top(1).ctor.of = "Boss"
     /\ stack'[1] # stack[1]) =>
        LET c == Top(1).ctor.owner
            l == Nearest(Top(1).res, "ArcLogger")
        IN  /\ l # 0
            /\ cells[l]["ArcLogger"] # NoValue
            /\ cells[c]["ArcBoss"] = NoValue
            /\ cells'[c]["ArcBoss"] # NoValue
            /\ cells'[c]["ArcBoss"].dep = cells[l]["ArcLogger"].id

\* A resolve of a singleton Boss whose cell is populated returns the Boss in
\* the cell as it is, on whatever Resolver it is made, and builds nothing:
\* the Logger the Resolver of the call would reach plays no part.
C22_CachedStep ==
    (/\ Ready(1)
     /\ regs' = regs
     /\ out'[1].by.kind = "singleton"
     /\ out'[1].by.of = "Boss"
     /\ out'[1].tag = "some") =>
        LET c == out'[1].by.owner IN
        /\ cells[c]["ArcBoss"] # NoValue
        /\ out'[1].v = cells[c]["ArcBoss"]
        /\ cells' = cells
        /\ gen' = gen
        /\ built' = built

\* C22: the instance a parent-registered singleton caches is built with the
\* dependencies seen by the Resolver that triggered its first construction;
\* first resolved through a child that shadows Logger, the cached Boss holds
\* the child's Logger, and every later resolution, the parent's own included,
\* returns that same Boss without rebuilding it.
C22_CachedWithFirstResolversView == [][C22_StoreStep /\ C22_CachedStep]_vars

\* Boss, a singleton of the parent, was first resolved through the child that
\* shadows Logger; a resolve made on the parent has now returned that Boss,
\* which holds the child's Logger, while the parent's own Logger is another.
C22_Witness ==
    /\ out[1].tag = "some"
    /\ out[1].key = "ArcBoss"
    /\ out[1].res = 1
    /\ out[1].by.owner = 1
    /\ out[1].path = "call"
    /\ cells[2]["ArcLogger"] # NoValue
    /\ out[1].v.dep = cells[2]["ArcLogger"].id
    /\ cells[1]["ArcLogger"] # NoValue
    /\ cells[1]["ArcLogger"].id # out[1].v.dep


\* A registration that returns AlreadyRegistered for a slot whose accepted
\* registration is a singleton leaves that singleton as it was: the closure
\* in the table, the handle in its cell, and the instances it has handed out.
C23_RejectedStep ==
    \A c \in Containers, K \in TypeIds :
        (/\ regs' = regs + 1
         /\ reg_result'.c = c
         /\ reg_result'.key = K
         /\ reg_result'.result = "AlreadyRegistered"
         /\ accepted[c][K].kind = "singleton") =>
            /\ constructors'[c][K] = constructors[c][K]
            /\ cells'[c][K] = cells[c][K]
            /\ given'[c][K] = given[c][K]

\* The slot of an accepted singleton registration has constructed one object
\* at most, and a resolve answered after a rejected attempt on the slot
\* returned that object.
C23_OneInstanceAcrossAttempts ==
    \A c \in Containers, K \in TypeIds :
        accepted[c][K].kind = "singleton" =>
            /\ cells[c][K] # NoValue => cells[c][K].id = <<c, K, 1>>
            /\ \A t \in Threads :
                  (out[t].tag = "some" /\ out[t].by.owner = c /\ out[t].by.key = K) =>
                      out[t].v.id = <<c, K, 1>>

\* C23: singleton identity survives rejected registrations.  Through any
\* sequence of resolutions and of registration attempts for the same key
\* that return AlreadyRegistered, every resolution returns the identical
\* instance and the construction runs once in total.
C23_SingletonSurvivesRejectedRegistration ==
    [](C23_OneInstanceAcrossAttempts) /\ [][C23_RejectedStep]_vars


\* The keys Arc<T> of the singleton types.
ArcKeys == {"ArcLogger", "ArcBoss"}

\* register_singleton::<T>() writes one entry, a singleton closure for T under
\* the key Arc<T> of the container it is called on, returning Ok or
\* AlreadyRegistered by whether that key was taken; no entry under any other
\* key, T's included, appears or changes.
C24_SingletonStep ==
    (regs' = regs + 1 /\ reg_result'.kind = "singleton") =>
        LET r == reg_result' IN
        /\ r.key \in ArcKeys
        /\ constructors'[r.c][r.key].kind = "singleton"
        /\ r.key = "ArcBoss" <=> constructors'[r.c][r.key].of = "Boss"
        /\ r.key = "ArcLogger" <=> constructors'[r.c][r.key].of = "Logger"
        /\ r.result = "AlreadyRegistered" <=> constructors[r.c][r.key] # NoCtor
        /\ \A c \in Containers, K \in TypeIds :
              (c # r.c \/ K # r.key) => constructors'[c][K] = constructors[c][K]

\* On a container that holds a singleton entry under Arc<T>, a registration
\* for Arc<T> returns AlreadyRegistered, and a registration for T returns Ok
\* when T has no entry of its own there.
C24_LaterStep ==
    \A c \in Containers :
        (/\ regs' = regs + 1
         /\ reg_result'.c = c
         /\ constructors[c]["ArcBoss"].kind = "singleton") =>
            /\ reg_result'.key = "ArcBoss" => reg_result'.result = "AlreadyRegistered"
            /\ (reg_result'.key = "Boss" /\ constructors[c]["Boss"] = NoCtor) =>
                  /\ reg_result'.result = "Ok"
                  /\ constructors'[c]["Boss"].kind = "construct"
                  /\ constructors'[c]["ArcBoss"] = constructors[c]["ArcBoss"]

\* A finished resolve::<Arc<T>> that found a singleton entry returned the
\* handle of type Arc<T> in its cell; a finished resolve::<T> never ran a
\* singleton entry, and returned None where no container on the chain has
\* an entry for T itself, whatever is registered under Arc<T>.
C24_ResolvedByKey ==
    \A t \in Threads :
        Finished(t) =>
            /\ out[t].by.kind = "singleton" =>
                  /\ out[t].key \in ArcKeys \cup {"ArcNode"}
                  /\ out[t].want = out[t].key =>
                        /\ out[t].tag = "some"
                        /\ out[t].v.ty = out[t].key
                        /\ out[t].v = cells[out[t].by.owner][out[t].key]
            /\ out[t].key = "Boss" =>
                  /\ out[t].by.kind # "singleton"
                  /\ out[t].tag = "some" => out[t].v.ty = "Boss"
                  /\ Nearest(out[t].res, "Boss") = 0 => out[t].tag = "nothing"

====
